---- MODULE Spec2Model ----
(***************************************************************************)
(* gix-each: enumerate the immediate subdirectories of a root directory    *)
(* and fetch each one from its default remote, either serially on the main *)
(* thread or in parallel on a rayon thread pool (src/src/main.rs).         *)
(*                                                                         *)
(* A work item is identified by its index in the vector returned by        *)
(* list_subdirectories; its name is the position of its directory entry.   *)
(* Worker 0 is the main thread (serial mode); workers 1..NumThreads are    *)
(* the threads of the global rayon pool (parallel mode).                   *)
(***************************************************************************)
EXTENDS Integers, Sequences, FiniteSets, TLC

\* Bounds of the model: entries of the root, and the largest jobs value.
MaxEntries == 2
MaxJobs == 2
\* The largest number of remote references a fetch reports.
MaxRefs == 1
\* The largest depth value given on the command line.
MaxDepth == 2
\* default_value_t of args.depth.
DefaultDepth == 1
\* The host's default parallelism, which rayon uses when jobs = 0.
HostCpus == 2

VARIABLES
    rootOk,       \* fs::read_dir(path) succeeds
    entries,      \* the directory entries of the root, in read_dir order
    serial,       \* args.serial
    jobs,         \* args.jobs
    depth,        \* args.depth
    pcMain,       \* position of main: "start", "running", "done", "panicked"
    dirs,         \* the vector bound by Ok(dirs) in main
    pc,           \* position of fetch_repo for each work item
    steps,        \* the library calls fetch_repo has made for each item, with results
    lines,        \* everything written so far, in the order of writing
    interrupted,  \* gix::interrupt::IS_INTERRUPTED
    pool,         \* rayon jobs pushed and not yet taken
    cur,          \* the slice each worker is folding sequentially
    caught,       \* a pool job has panicked; rayon rethrows when all are done
    afterInt,     \* history: the item's task was started with the flag raised
    entered,      \* history: how many times fetch_repo was entered for the item
    atInt,        \* history: the items in a network step when the flag was raised
    received      \* outcome.ref_map.remote_refs.len() of each receive that returned Ok

vars == <<rootOk, entries, serial, jobs, depth, pcMain, dirs, pc, steps, lines,
          interrupted, pool, cur, caught, afterInt, entered, atInt,
          received>>

Max(a, b) == IF a > b THEN a ELSE b

\* What a directory entry can be: a real directory, a regular file, a symbolic
\* link to a directory or to a file, or an entry whose read fails.
Kinds == {"dir", "file", "linkdir", "linkfile", "err"}

\* The kinds the roots of the scheduling runs are built from; the runs of the
\* enumerator alone take every kind.
RunKinds == {"dir", "file", "err"}

OutcomeTags == {"Success", "NotARepository", "NoRemoteConfigured",
                "RemoteResolutionFailed", "FetchFailed"}

Workers == 0..Max(MaxJobs, HostCpus)

NoLeaf == [lo |-> 1, hi |-> 0]

\* Mutant: symbolic links are not followed (symlink_metadata).
is_dir_nofollow(kind) == kind = "dir"

\* Path::is_dir follows symbolic links.
is_dir(kind) == kind \in {"dir", "linkdir"}

\* Mutant: an entry whose read fails is passed over instead of ending the listing.
RECURSIVE ListFromSkipErr(_, _, _)
ListFromSkipErr(es, k, acc) ==
    IF k > Len(es) THEN [ok |-> TRUE, dirs |-> acc]
    ELSE IF es[k] # "err" /\ is_dir(es[k])
         THEN ListFromSkipErr(es, k + 1, Append(acc, k))
    ELSE ListFromSkipErr(es, k + 1, acc)

\* The loop of list_subdirectories from entry k on, with the names pushed so far.
RECURSIVE ListFrom(_, _, _)
ListFrom(es, k, acc) ==
    IF k > Len(es) THEN [ok |-> TRUE, dirs |-> acc]
    ELSE IF es[k] = "err" THEN [ok |-> FALSE, dirs |-> <<>>]
    ELSE IF is_dir(es[k]) THEN ListFrom(es, k + 1, Append(acc, k))
    ELSE ListFrom(es, k + 1, acc)

list_subdirectories(root, es) ==
    IF ~root THEN [ok |-> FALSE, dirs |-> <<>>] ELSE ListFrom(es, 1, <<>>)

\* Mutant: with depth 0 nothing below the root is searched.
WorkSetNoneAtDepthZero(d, root, es) ==
    IF d = 0 THEN [ok |-> root, dirs |-> <<>>] ELSE list_subdirectories(root, es)

\* main, line 97: the work set is list_subdirectories(&base_path); args.depth
\* is not read.
WorkSet(d, root, es) == list_subdirectories(root, es)

\* Mutant: the pool is never configured, rayon's default size is used.
NumThreadsDefault(j) == HostCpus

\* num_threads of the global pool: args.jobs when positive, else rayon's default.
NumThreads(j) == IF j > 0 THEN j ELSE HostCpus

\* Mutant: every line is written with println!.
StreamAllStdout(tag) == "stdout"

\* println! writes to standard output, eprintln! to standard error.
StreamOf(tag) == IF tag = "Success" THEN "stdout" ELSE "stderr"

\* Mutant: the two messages about the remote share one text.
MessageShared(tag) ==
    IF tag \in {"NoRemoteConfigured", "RemoteResolutionFailed"}
    THEN ", <9519><8BEF><FF1A>remote"
    ELSE IF tag = "NotARepository"
    THEN ", <9519><8BEF><FF1A><76EE><5F55><975E>git<4ED3><5E93>."
    ELSE IF tag = "Success"
    THEN ": <62C9><53D6><6210><529F><5B8C><6210>! <63A5><6536><5230> "
    ELSE IF tag = "FetchFailed" THEN ": <62C9><53D6><5931><8D25>: "
    ELSE IF tag = "Fatal" THEN "<9519><8BEF>: "
    ELSE "panicked at "

\* The fixed text of each format string between the name and the first printed
\* argument (lines 45, 52, 59, 76, 82, 113), a character outside ASCII written
\* as its code point <XXXX>; the last is the panic hook's message.
Message(tag) ==
    IF tag = "NotARepository"
    THEN ", <9519><8BEF><FF1A><76EE><5F55><975E>git<4ED3><5E93>."
    ELSE IF tag = "NoRemoteConfigured"
    THEN ", <9519><8BEF><FF1A><672A><914D><7F6E>remote"
    ELSE IF tag = "RemoteResolutionFailed"
    THEN ", <9519><8BEF><FF1A>remote<83B7><53D6><5931><8D25>, "
    ELSE IF tag = "Success"
    THEN ": <62C9><53D6><6210><529F><5B8C><6210>! <63A5><6536><5230> "
    ELSE IF tag = "FetchFailed" THEN ": <62C9><53D6><5931><8D25>: "
    ELSE IF tag = "Fatal" THEN "<9519><8BEF>: "
    ELSE "panicked at "

\* The Display of an error value, whatever it says.
ErrText == "e"

\* Mutant: the count printed is one more than the number of references.
ShownCountPlusOne(n) == ToString(n + 1)

\* The Display of outcome.ref_map.remote_refs.len().
ShownCount(n) == ToString(n)

\* Mutant: the line is held back instead of being written when it is produced.
EmitHeldBack(name, tag, arg) == lines

\* The macros write the line, newline included, when they are executed: the
\* name, the fixed text and the printed argument.
Emit(name, tag, arg) ==
    Append(lines, [name |-> name, tag |-> tag, stream |-> StreamOf(tag),
                   text |-> Message(tag), arg |-> arg])

\* Mutant: the closure returns at once when the flag is raised.
DispatchUnlessInterrupted(int) == IF int THEN "done" ELSE "open"

\* The closure given to for_each calls fetch_repo for every item it is handed.
Dispatch(int) == "open"

\* Mutant: the slice is walked from its back.
NextItemBack(c) == c.hi

\* Iterator::for_each hands the items of a slice over front to back.
NextItem(c) == c.lo

Advance(c) == IF c.lo + 1 > c.hi THEN NoLeaf ELSE [c EXCEPT !.lo = c.lo + 1]

\* Mutant: a failed open is tried again.
OpenNextRetry(ok) == IF ok THEN "remote" ELSE "open"

\* Mutant: after a successful open the remote lookup is left out.
OpenNextSkipRemote(ok) == IF ok THEN "connect" ELSE "done"

\* Mutant: the Err arm of the match on gix::open does not return.
OpenNextNoReturn(ok) == "remote"

\* match gix::open(..): Ok goes on to the remote lookup, Err returns.
OpenNext(ok) == IF ok THEN "remote" ELSE "done"

\* find_default_remote: None, Some(Err(e)) or Some(Ok(remote)).
RemoteResults == {"none", "err", "ok"}

\* Mutant: a missing remote is reported like one that fails to resolve.
RemoteTagOne(r) == "RemoteResolutionFailed"

\* The messages of the None arm (line 52) and of the Err arm (line 59).
RemoteTag(r) ==
    IF r = "none" THEN "NoRemoteConfigured" ELSE "RemoteResolutionFailed"

\* Result of receive(p, &IS_INTERRUPTED). The flag is only polled inside the
\* library while a pack is negotiated or written, so a raised flag does not
\* determine the result.
ReceiveResults == {"ok", "err"}

\* The sizes the list of remote references of an Ok outcome can have.
RefCounts == 0..MaxRefs

ReceiveTag(r) == IF r = "ok" THEN "Success" ELSE "FetchFailed"

\* rayon's bridge over the slice lo..hi run by worker w: LengthSplitter::try_split
\* (min 1) halves the slice while the split budget lasts, the left half is run
\* inline and the right half pushed as a job; what is left is folded in order.
RECURSIVE Descend(_, _, _, _, _, _)
Descend(lo, hi, splits, migrated, threads, w) ==
    LET len == hi - lo + 1
        mid == len \div 2
    IN IF mid >= 1 /\ (migrated \/ splits > 0)
       THEN LET s2 == IF migrated THEN Max(threads, splits \div 2)
                      ELSE splits \div 2
                rec == Descend(lo, lo + mid - 1, s2, FALSE, threads, w)
            IN [leaf |-> rec.leaf,
                pushed |-> rec.pushed \cup
                    {[lo |-> lo + mid, hi |-> hi, splits |-> s2, owner |-> w]}]
       ELSE [leaf |-> IF len >= 1 THEN [lo |-> lo, hi |-> hi] ELSE NoLeaf,
             pushed |-> {}]

\* One library call made by fetch_repo, with what it returned.
Call(step, res) == [step |-> step, res |-> res]

Res(ok) == IF ok THEN "ok" ELSE "err"

Items == 1..Len(dirs)

ActivePcs == {"open", "remote", "connect", "prepare", "receive"}

\* The positions of fetch_repo at a call that talks to the remote.
NetworkPcs == {"connect", "prepare", "receive"}

Active(i) == pc[i] \in ActivePcs

Terminal(i) == pc[i] \in {"done", "panicked"}

RECURSIVE SeqsUpTo(_, _)
SeqsUpTo(S, n) ==
    IF n = 0 THEN {<<>>}
    ELSE LET prev == SeqsUpTo(S, n - 1)
         IN prev \cup {Append(s, x) : s \in {t \in prev : Len(t) = n - 1}, x \in S}

InitWith(K, D) ==
    /\ rootOk \in BOOLEAN
    /\ entries \in SeqsUpTo(K, MaxEntries)
    /\ (~rootOk => entries = <<>>)
    /\ serial \in BOOLEAN
    /\ jobs \in 0..MaxJobs
    /\ depth \in D
    /\ pcMain = "start"
    /\ dirs = <<>>
    /\ pc = <<>>
    /\ steps = <<>>
    /\ lines = <<>>
    /\ interrupted = FALSE
    /\ pool = {}
    /\ cur = [w \in Workers |-> NoLeaf]
    /\ caught = FALSE
    /\ afterInt = <<>>
    /\ entered = <<>>
    /\ atInt = {}
    /\ received = <<>>

Init == InitWith(RunKinds, {DefaultDepth})

\* The start of a run of the enumerator alone.
InitEnum == InitWith(Kinds, {DefaultDepth})

\* The start of a run with any depth value given.
InitDepth == InitWith(RunKinds, 0..MaxDepth)

\* main, lines 97-114: the match on list_subdirectories(&base_path).
ListDirs ==
    /\ pcMain = "start"
    /\ LET r == WorkSet(depth, rootOk, entries)
           n == Len(r.dirs)
       IN IF ~r.ok
          THEN /\ lines' = Emit(0, "Fatal", ErrText)
               /\ pcMain' = "done"
               /\ UNCHANGED <<dirs, pc, steps, afterInt, entered, pool, cur>>
          ELSE /\ dirs' = r.dirs
               /\ pc' = [i \in 1..n |-> "idle"]
               /\ steps' = [i \in 1..n |-> <<>>]
               /\ afterInt' = [i \in 1..n |-> FALSE]
               /\ entered' = [i \in 1..n |-> 0]
               /\ pcMain' = "running"
               /\ lines' = lines
               /\ IF serial
                  THEN /\ cur' = [cur EXCEPT
                                    ![0] = IF n >= 1 THEN [lo |-> 1, hi |-> n]
                                           ELSE NoLeaf]
                       /\ pool' = pool
                  ELSE /\ pool' = {[lo |-> 1, hi |-> n,
                                    splits |-> NumThreads(jobs), owner |-> 0]}
                       /\ cur' = cur
    /\ UNCHANGED <<rootOk, entries, serial, jobs, depth, interrupted, caught, atInt, received>>

\* A pool thread takes a job (its own or a stolen one) and splits it down to
\* the slice it folds itself.
TakeJob(w) ==
    /\ pcMain = "running" /\ ~serial
    /\ w \in 1..NumThreads(jobs)
    /\ cur[w] = NoLeaf
    /\ \E j \in pool :
         LET d == Descend(j.lo, j.hi, j.splits, j.owner \notin {0, w},
                          NumThreads(jobs), w)
         IN /\ pool' = (pool \ {j}) \cup d.pushed
            /\ cur' = [cur EXCEPT ![w] = d.leaf]
    /\ UNCHANGED <<rootOk, entries, serial, jobs, depth, pcMain, dirs, pc, steps,
                   lines, interrupted, caught, afterInt, entered, atInt, received>>

\* The for_each closure, lines 101-104 and 107-110: fetch_repo is entered.
StartTask(w) ==
    /\ pcMain = "running"
    /\ cur[w] # NoLeaf
    /\ LET i == NextItem(cur[w])
           p == Dispatch(interrupted)
       IN /\ ~Active(i)
          /\ pc' = [pc EXCEPT ![i] = p]
          /\ afterInt' = [afterInt EXCEPT ![i] = interrupted]
          /\ entered' = [entered EXCEPT ![i] = @ + 1]
          /\ cur' = IF p = "done" THEN [cur EXCEPT ![w] = Advance(cur[w])] ELSE cur
    /\ UNCHANGED <<rootOk, entries, serial, jobs, depth, pcMain, dirs, steps,
                   lines, interrupted, pool, caught, atInt, received>>

\* fetch_repo, lines 42-48.
Open(w) ==
    /\ pcMain = "running"
    /\ cur[w] # NoLeaf
    /\ LET i == NextItem(cur[w])
       IN /\ pc[i] = "open"
          /\ \E ok \in BOOLEAN :
               /\ steps' = [steps EXCEPT ![i] = Append(@, Call("open", Res(ok)))]
               /\ pc' = [pc EXCEPT ![i] = OpenNext(ok)]
               /\ lines' = IF ok THEN lines ELSE Emit(dirs[i], "NotARepository", ErrText)
               /\ cur' = IF OpenNext(ok) = "done"
                         THEN [cur EXCEPT ![w] = Advance(cur[w])] ELSE cur
    /\ UNCHANGED <<rootOk, entries, serial, jobs, depth, pcMain, dirs,
                   interrupted, pool, caught, afterInt, entered, atInt, received>>

\* fetch_repo, lines 49-62.
FindRemote(w) ==
    /\ pcMain = "running"
    /\ cur[w] # NoLeaf
    /\ LET i == NextItem(cur[w])
       IN /\ pc[i] = "remote"
          /\ \E r \in RemoteResults :
               IF r = "ok"
               THEN /\ steps' = [steps EXCEPT ![i] = Append(@, Call("remote", r))]
                    /\ pc' = [pc EXCEPT ![i] = "connect"]
                    /\ UNCHANGED <<lines, cur>>
               ELSE /\ steps' = [steps EXCEPT ![i] = Append(@, Call("remote", r))]
                    /\ pc' = [pc EXCEPT ![i] = "done"]
                    /\ lines' = Emit(dirs[i], RemoteTag(r), IF r = "none" THEN "" ELSE ErrText)
                    /\ cur' = [cur EXCEPT ![w] = Advance(cur[w])]
    /\ UNCHANGED <<rootOk, entries, serial, jobs, depth, pcMain, dirs,
                   interrupted, pool, caught, afterInt, entered, atInt, received>>

\* A panic inside fetch_repo run by worker w for item i. On the main thread it
\* unwinds main; in the pool the job's panic is captured, the rest of the slice
\* being folded is dropped and the panic is resumed once every job has ended.
\* The panic hook writes its message to standard error.
Panic(w, i) ==
    /\ pc' = [pc EXCEPT ![i] = "panicked"]
    /\ lines' = Emit(dirs[i], "PanicMessage", ErrText)
    /\ cur' = [cur EXCEPT ![w] = NoLeaf]
    /\ IF serial
       THEN pcMain' = "panicked" /\ caught' = caught
       ELSE pcMain' = pcMain /\ caught' = TRUE

\* fetch_repo, lines 64-66: remote.connect(..).unwrap().
Connect(w) ==
    /\ pcMain = "running"
    /\ cur[w] # NoLeaf
    /\ LET i == NextItem(cur[w])
       IN /\ pc[i] = "connect"
          /\ \E ok \in BOOLEAN :
               /\ steps' = [steps EXCEPT ![i] = Append(@, Call("connect", Res(ok)))]
               /\ IF ok
                  THEN /\ pc' = [pc EXCEPT ![i] = "prepare"]
                       /\ UNCHANGED <<lines, cur, pcMain, caught>>
                  ELSE Panic(w, i)
    /\ UNCHANGED <<rootOk, entries, serial, jobs, depth, dirs, interrupted, pool,
                   afterInt, entered, atInt, received>>

\* fetch_repo, lines 67-71: .prepare_fetch(..).unwrap().
Prepare(w) ==
    /\ pcMain = "running"
    /\ cur[w] # NoLeaf
    /\ LET i == NextItem(cur[w])
       IN /\ pc[i] = "prepare"
          /\ \E ok \in BOOLEAN :
               /\ steps' = [steps EXCEPT ![i] = Append(@, Call("prepare", Res(ok)))]
               /\ IF ok
                  THEN /\ pc' = [pc EXCEPT ![i] = "receive"]
                       /\ UNCHANGED <<lines, cur, pcMain, caught>>
                  ELSE Panic(w, i)
    /\ UNCHANGED <<rootOk, entries, serial, jobs, depth, dirs, interrupted, pool,
                   afterInt, entered, atInt, received>>

\* fetch_repo, lines 72-84: .receive(p, &IS_INTERRUPTED) and the final match.
Receive(w) ==
    /\ pcMain = "running"
    /\ cur[w] # NoLeaf
    /\ LET i == NextItem(cur[w])
       IN /\ pc[i] = "receive"
          /\ \E r \in ReceiveResults :
             \E n \in (IF r = "ok" THEN RefCounts ELSE {0}) :
               /\ steps' = [steps EXCEPT ![i] = Append(@, Call("receive", r))]
               /\ pc' = [pc EXCEPT ![i] = "done"]
               /\ received' = IF r = "ok" THEN received @@ (i :> n) ELSE received
               /\ lines' = Emit(dirs[i], ReceiveTag(r),
                                IF r = "ok" THEN ShownCount(n) ELSE ErrText)
               /\ cur' = [cur EXCEPT ![w] = Advance(cur[w])]
    /\ UNCHANGED <<rootOk, entries, serial, jobs, depth, pcMain, dirs,
                   interrupted, pool, caught, afterInt, entered, atInt>>

\* dirs.iter().for_each(..) returns: main ends.
SerialDone ==
    /\ pcMain = "running" /\ serial
    /\ cur[0] = NoLeaf
    /\ pcMain' = "done"
    /\ UNCHANGED <<rootOk, entries, serial, jobs, depth, dirs, pc, steps, lines,
                   interrupted, pool, cur, caught, afterInt, entered, atInt, received>>

\* dirs.par_iter().for_each(..) returns once every job has ended, resuming a
\* captured panic on the main thread.
ParallelDone ==
    /\ pcMain = "running" /\ ~serial
    /\ pool = {}
    /\ \A w \in Workers : cur[w] = NoLeaf
    /\ pcMain' = IF caught THEN "panicked" ELSE "done"
    /\ UNCHANGED <<rootOk, entries, serial, jobs, depth, dirs, pc, steps, lines,
                   interrupted, pool, cur, caught, afterInt, entered, atInt, received>>

\* The environment raises the process-wide flag; it is never reset.
Interrupt ==
    /\ pcMain \in {"start", "running"}
    /\ ~interrupted
    /\ interrupted' = TRUE
    /\ atInt' = {i \in DOMAIN pc : pc[i] \in NetworkPcs}
    /\ UNCHANGED <<rootOk, entries, serial, jobs, depth, pcMain, dirs, pc, steps,
                   lines, pool, cur, caught, afterInt, entered, received>>

Next ==
    \/ ListDirs
    \/ \E w \in Workers : TakeJob(w)
    \/ \E w \in Workers : StartTask(w)
    \/ \E w \in Workers : Open(w)
    \/ \E w \in Workers : FindRemote(w)
    \/ \E w \in Workers : Connect(w)
    \/ \E w \in Workers : Prepare(w)
    \/ \E w \in Workers : Receive(w)
    \/ SerialDone
    \/ ParallelDone
    \/ Interrupt

Spec == Init /\ [][Next]_vars

\* The enumerator alone, over every kind of entry.
NextEnum == ListDirs

SpecEnum == InitEnum /\ [][NextEnum]_vars

\* The whole program, over every depth value.
SpecDepth == InitDepth /\ [][Next]_vars

(***************************************************************************)
(* Properties.                                                             *)
(***************************************************************************)

RunEnded == pcMain \in {"done", "panicked"}

\* The outcome lines written for work item i, as positions in lines.
OutcomeLines(i) ==
    {k \in DOMAIN lines : lines[k].name = dirs[i] /\ lines[k].tag \in OutcomeTags}

TagsOf(i) == {lines[k].tag : k \in OutcomeLines(i)}

OneLine(i, tag) == Cardinality(OutcomeLines(i)) = 1 /\ TagsOf(i) = {tag}

IsOutcome(l) == l.tag \in OutcomeTags

OutcomeSeq == SelectSeq(lines, IsOutcome)

ItemOf(name) == CHOOSE i \in Items : dirs[i] = name

ActiveItems == {i \in Items : Active(i)}

\* C1: when the run ends after a successful enumeration, exactly one outcome
\* line has been written for each work item, N lines in all, in both modes and
\* for every combination of step results.
C1_OneOutcomePerItem ==
    (RunEnded /\ list_subdirectories(rootOk, entries).ok) =>
        /\ Len(OutcomeSeq) = Len(dirs)
        /\ \A i \in Items : Cardinality(OutcomeLines(i)) = 1

\* C2: failures are isolated: when the run ends, every work item's task has
\* been started and has reached its own terminal outcome, whatever happened to
\* the other tasks.
C2_FailuresIsolated ==
    RunEnded => \A i \in Items : Terminal(i)

\* C3: a failure of connect, of prepare_fetch or of receive makes fetch_repo
\* return normally with a FetchFailed line; no task ends in a panic.
C3_NetworkFailureIsFetchFailed ==
    \A i \in Items :
        /\ pc[i] # "panicked"
        /\ (\E k \in DOMAIN steps[i] :
                /\ steps[i][k].step \in {"connect", "prepare", "receive"}
                /\ steps[i][k].res = "err")
            => pc[i] = "done" /\ OneLine(i, "FetchFailed")

\* C4: in serial mode, whatever the jobs value, at most one task is active,
\* a task is started only when all earlier items' tasks have ended, the outcome
\* lines appear in enumeration order, and when for_each returns the sequence
\* of outcome lines names exactly the work list.
C4_SerialInOrder ==
    serial =>
        /\ Cardinality(ActiveItems) <= 1
        /\ \A i \in Items : \A j \in Items :
               (i < j /\ pc[j] # "idle") => Terminal(i)
        /\ \A a \in DOMAIN OutcomeSeq : \A b \in DOMAIN OutcomeSeq :
               a < b => ItemOf(OutcomeSeq[a].name) < ItemOf(OutcomeSeq[b].name)
        /\ pcMain = "done" =>
               [k \in DOMAIN OutcomeSeq |-> OutcomeSeq[k].name] = dirs

\* C4 witness: a serial run of two items has ended with a failure line followed
\* by a success line.
C4_Witness ==
    /\ serial /\ pcMain = "done" /\ Len(dirs) = 2
    /\ Len(OutcomeSeq) = 2
    /\ OutcomeSeq[1].tag = "NotARepository" /\ OutcomeSeq[1].name = dirs[1]
    /\ OutcomeSeq[2].tag = "Success" /\ OutcomeSeq[2].name = dirs[2]

\* C5: in parallel mode with jobs = k > 0 at most k tasks are active in every
\* state, so a further task starts only once an active one has ended; with
\* k = 1 a run whose for_each returns has still reported all N outcomes.
C5_AtMostJobsActive ==
    (~serial /\ jobs > 0) =>
        /\ Cardinality(ActiveItems) <= jobs
        /\ (jobs = 1 /\ pcMain = "done") =>
               \A i \in Items : Cardinality(OutcomeLines(i)) = 1

\* C5 witness: with jobs = 1 one task is active while another item waits, its
\* job still in the pool.
C5_Witness ==
    /\ ~serial /\ jobs = 1 /\ pcMain = "running"
    /\ Cardinality(ActiveItems) = 1
    /\ \E i \in Items : pc[i] = "idle" /\ \E j \in pool : j.lo <= i /\ i <= j.hi

\* The first call of item i's task, gix::open, has failed.
OpenFailed(i) == Len(steps[i]) >= 1 /\ steps[i][1].res = "err"

\* The second call of item i's task, find_default_remote, has returned r.
RemoteReturned(i, r) == Len(steps[i]) >= 2 /\ steps[i][2].res = r

C6_Inv ==
    \A i \in Items :
        OpenFailed(i) =>
            /\ pc[i] = "done"
            /\ steps[i] = <<Call("open", "err")>>
            /\ OneLine(i, "NotARepository")

C6_Frame ==
    \A i \in Items :
        (steps[i] = <<>> /\ steps'[i] = <<Call("open", "err")>>) =>
            /\ pcMain' = pcMain
            /\ caught' = caught
            /\ \A j \in Items \ {i} :
                   /\ pc'[j] = pc[j]
                   /\ steps'[j] = steps[j]
                   /\ OutcomeLines(j)' = OutcomeLines(j)

\* C6: a work item whose path does not open as a repository gets exactly one
\* line, NotARepository, its task makes no other library call, and the step
\* that reports it changes nothing of any other work item or of the run.
C6_NotARepository == []C6_Inv /\ [][C6_Frame]_vars

\* C6 witness: the first item failed to open and has its NotARepository line,
\* the second item went on to fetch successfully.
C6_Witness ==
    /\ Len(dirs) = 2
    /\ OpenFailed(1) /\ OneLine(1, "NotARepository")
    /\ pc[2] = "done" /\ OneLine(2, "Success")

\* C7: an item that opens but has no default remote gets exactly one line,
\* NoRemoteConfigured, and one whose remote fails to resolve gets exactly one
\* line, RemoteResolutionFailed; in both cases the task ends without connect,
\* prepare_fetch or receive being called.
C7_NoRemote ==
    \A i \in Items : \A r \in {"none", "err"} :
        RemoteReturned(i, r) =>
            /\ pc[i] = "done"
            /\ steps[i] = <<Call("open", "ok"), Call("remote", r)>>
            /\ OneLine(i, IF r = "none" THEN "NoRemoteConfigured"
                          ELSE "RemoteResolutionFailed")

\* C7 witness: one item has ended with NoRemoteConfigured and another with
\* RemoteResolutionFailed.
C7_Witness ==
    /\ Len(dirs) = 2
    /\ RemoteReturned(1, "none") /\ OneLine(1, "NoRemoteConfigured")
    /\ RemoteReturned(2, "err") /\ OneLine(2, "RemoteResolutionFailed")

\* The root cannot be read, or reading one of its entries fails.
EnumerationFails ==
    ~rootOk \/ \E k \in DOMAIN entries : entries[k] = "err"

FatalLine ==
    [name |-> 0, tag |-> "Fatal", stream |-> "stderr", text |-> Message("Fatal"),
     arg |-> ErrText]

\* C8: when the enumeration fails, in either mode, no work item exists and no
\* task is ever handed to a worker; once main has matched the result the run is
\* over with exactly one line written, the fatal error on standard error.
C8_FatalEnumeration ==
    EnumerationFails =>
        /\ dirs = <<>> /\ pc = <<>> /\ steps = <<>>
        /\ pool = {}
        /\ \A w \in Workers : cur[w] = NoLeaf
        /\ pcMain \in {"start", "done"}
        /\ pcMain = "start" => lines = <<>>
        /\ pcMain = "done" => lines = <<FatalLine>>

\* C8 witness: the root holds a directory and then an entry whose read fails;
\* the run is over with the fatal line alone.
C8_Witness ==
    /\ rootOk /\ entries = <<"dir", "err">>
    /\ pcMain = "done" /\ lines = <<FatalLine>>

\* C9 as stated: every outcome line is on standard output, and standard error
\* holds nothing but the fatal enumeration error.
C9_OutcomesOnStdout ==
    \A k \in DOMAIN lines :
        /\ lines[k].tag \in OutcomeTags => lines[k].stream = "stdout"
        /\ lines[k].stream = "stderr" => lines[k].tag = "Fatal"

IsStdout(l) == l.stream = "stdout"

\* The items whose task has ended with receive returning Ok.
Succeeded == {i \in Items : pc[i] = "done" /\ Call("receive", "ok") \in
                                  {steps[i][k] : k \in DOMAIN steps[i]}}

\* C9 amended: a line is on standard output exactly if it is a Success line;
\* the four failure lines and the fatal error are on standard error; standard
\* output holds one line for each item whose task has ended in Success.
C9_OnlySuccessOnStdout ==
    /\ \A k \in DOMAIN lines :
           lines[k].stream = (IF lines[k].tag = "Success" THEN "stdout" ELSE "stderr")
    /\ Len(SelectSeq(lines, IsStdout)) = Cardinality(Succeeded)

\* C9 witness: a run of two items has ended, one in Success and one in
\* FetchFailed; standard output holds one line.
C9_Witness ==
    /\ pcMain = "done" /\ Len(dirs) = 2
    /\ \E i \in Items : \E j \in Items :
           OneLine(i, "Success") /\ OneLine(j, "FetchFailed")
    /\ Len(SelectSeq(lines, IsStdout)) = 1

C11_RunNeverCrashes ==
    pcMain # "panicked"

DirLike == {"dir", "linkdir"}

\* C12 as stated: the work set is exactly the immediate children that are real
\* directories; no symbolic link is ever in it.
C12_OnlyRealDirectories ==
    (pcMain # "start" /\ ~EnumerationFails) =>
        /\ \A i \in Items : entries[dirs[i]] = "dir"
        /\ \A k \in DOMAIN entries : entries[k] = "dir" => \E i \in Items : dirs[i] = k

\* C12 amended: the work set is, in read_dir order and without repetition,
\* exactly the immediate children for which Path::is_dir holds: the real
\* directories and the symbolic links to directories; files and symbolic links
\* to files are never in it.
C12_DirectoriesAndLinksToThem ==
    (pcMain # "start" /\ ~EnumerationFails) =>
        /\ \A i \in Items : dirs[i] \in DOMAIN entries /\ entries[dirs[i]] \in DirLike
        /\ \A k \in DOMAIN entries : entries[k] \in DirLike => \E i \in Items : dirs[i] = k
        /\ \A i \in Items : \A j \in Items : i < j => dirs[i] < dirs[j]

\* C12 witness: of a symbolic link to a file and a symbolic link to a
\* directory, the enumerator has returned the second alone.
C12_Witness ==
    /\ pcMain = "running"
    /\ entries = <<"linkfile", "linkdir">>
    /\ dirs = <<2>>

StepOrder == <<"open", "remote", "connect", "prepare", "receive">>

\* C13: in both modes the calls of a task are made in the order open, remote
\* lookup, connect, prepare_fetch, receive: each call is made only after all
\* earlier ones of the same task returned successfully, and a call that fails
\* is the task's last.
C13_StepsInOrder ==
    \A i \in Items :
        /\ Len(steps[i]) <= Len(StepOrder)
        /\ \A k \in DOMAIN steps[i] :
               /\ steps[i][k].step = StepOrder[k]
               /\ k < Len(steps[i]) => steps[i][k].res = "ok"
        /\ (steps[i] # <<>> /\ steps[i][Len(steps[i])].res # "ok") => Terminal(i)
        /\ Active(i) => pc[i] = StepOrder[Len(steps[i]) + 1]

\* C13 witness: in parallel mode one task has made all five calls and another
\* has ended at the remote lookup.
C13_Witness ==
    /\ ~serial /\ Len(dirs) = 2
    /\ Len(steps[1]) = 5 /\ steps[1][5].step = "receive"
    /\ Len(steps[2]) = 2 /\ steps[2][2] = Call("remote", "err") /\ pc[2] = "done"

\* The slices of the work list that are held by a worker or wait in the pool.
Slices ==
    {[holder |-> <<"worker", w>>, lo |-> cur[w].lo, hi |-> cur[w].hi] :
         w \in {v \in Workers : cur[v] # NoLeaf}}
    \cup {[holder |-> <<"job", j.owner>>, lo |-> j.lo, hi |-> j.hi] : j \in pool}

\* C14: no work item is processed twice: fetch_repo is entered at most once
\* for each item, the slices handed to the workers never overlap so that an
\* item being processed is the current item of exactly one worker, and no call
\* of a task is made a second time.
C14_AtMostOnce ==
    /\ \A i \in Items :
           /\ entered[i] <= 1
           /\ entered[i] = 0 <=> pc[i] = "idle"
           /\ \A k \in DOMAIN steps[i] : \A l \in DOMAIN steps[i] :
                  steps[i][k].step = steps[i][l].step => k = l
           /\ Active(i) =>
                  Cardinality({w \in Workers :
                      cur[w] # NoLeaf /\ NextItem(cur[w]) = i}) = 1
    /\ \A a \in Slices : \A b \in Slices :
           a # b => (a.hi < b.lo \/ b.hi < a.lo)

\* C14 witness: in parallel mode two workers each process their own item, each
\* entered once.
C14_Witness ==
    /\ ~serial /\ pcMain = "running"
    /\ \E v \in Workers : \E w \in Workers :
           /\ v # w /\ cur[v] # NoLeaf /\ cur[w] # NoLeaf
           /\ Active(NextItem(cur[v])) /\ Active(NextItem(cur[w]))
    /\ \A i \in Items : pc[i] # "idle" => entered[i] = 1

\* C15: a task that was in connect, prepare_fetch or receive when the flag was
\* raised aborts and ends with a FetchFailed line, never with Success.
C15_InterruptedTaskFetchFailed ==
    \A i \in atInt :
        Terminal(i) => pc[i] = "done" /\ OneLine(i, "FetchFailed")

\* C16: outcome lines are written as the tasks end, not in a batch at the end:
\* a task that has returned has its line already, whatever main and the other
\* tasks are still doing, and a task that has not returned yet has none; so in
\* serial mode the line of item i is there before the task of item i+1 starts.
C16_LinesAsTasksEnd ==
    /\ \A i \in Items :
           /\ pc[i] = "done" => Cardinality(OutcomeLines(i)) = 1
           /\ pc[i] \in ActivePcs \cup {"idle"} => OutcomeLines(i) = {}
    /\ serial =>
           \A i \in Items : \A j \in Items :
               (i < j /\ pc[j] # "idle" /\ pc[i] = "done") =>
                   \E k \in DOMAIN lines : lines[k].name = dirs[i]

\* C16 witness: in parallel mode the line of a finished task is written while
\* another task is still running.
C16_Witness ==
    /\ ~serial /\ pcMain = "running"
    /\ \E i \in Items : \E j \in Items :
           /\ pc[i] = "done" /\ Cardinality(OutcomeLines(i)) = 1
           /\ Active(j)

\* The outcome class of a task that has returned, read off its last call.
ClassOf(i) ==
    LET c == steps[i][Len(steps[i])]
    IN IF c = Call("open", "err") THEN "NotARepository"
       ELSE IF c = Call("remote", "none") THEN "NoRemoteConfigured"
       ELSE IF c = Call("remote", "err") THEN "RemoteResolutionFailed"
       ELSE IF c = Call("receive", "ok") THEN "Success"
       ELSE "FetchFailed"

\* C17: the five outcome classes are written with pairwise different texts,
\* and the line of every task that has returned carries the name of its work
\* item and the text of its class, so the class can be read off the line.
C17_LineIdentifiesClass ==
    /\ \A c \in OutcomeTags : \A d \in OutcomeTags :
           c # d => Message(c) # Message(d)
    /\ \A i \in Items :
           pc[i] = "done" =>
               \E k \in DOMAIN lines :
                   lines[k].name = dirs[i] /\ lines[k].text = Message(ClassOf(i))
    /\ \A k \in DOMAIN OutcomeSeq : \A l \in DOMAIN OutcomeSeq :
           OutcomeSeq[k].text = OutcomeSeq[l].text =>
               ClassOf(ItemOf(OutcomeSeq[k].name)) = ClassOf(ItemOf(OutcomeSeq[l].name))

\* C17 witness: one task has ended in Success and another in FetchFailed, and
\* their lines carry their names and different texts.
C17_Witness ==
    /\ Len(dirs) = 2 /\ pc[1] = "done" /\ pc[2] = "done"
    /\ ClassOf(1) = "Success" /\ ClassOf(2) = "FetchFailed"
    /\ \E k \in DOMAIN lines : \E l \in DOMAIN lines :
           /\ lines[k].name = dirs[1] /\ lines[l].name = dirs[2]
           /\ lines[k].text # lines[l].text

AllFiveOk ==
    <<Call("open", "ok"), Call("remote", "ok"), Call("connect", "ok"),
      Call("prepare", "ok"), Call("receive", "ok")>>

\* C18: a Success line is written for a work item only when open, the remote
\* lookup, connect, prepare_fetch and receive have all succeeded for it, and
\* the number it prints is the number of remote references of the receive
\* outcome; a task with a failed call has no Success line.
C18_SuccessOnlyAfterAllSteps ==
    /\ \A k \in DOMAIN lines :
           lines[k].tag = "Success" =>
               LET i == ItemOf(lines[k].name)
               IN /\ steps[i] = AllFiveOk
                  /\ i \in DOMAIN received
                  /\ lines[k].arg = ToString(received[i])
    /\ \A i \in Items :
           (\E c \in DOMAIN steps[i] : steps[i][c].res # "ok") =>
               "Success" \notin TagsOf(i)

\* C18 witness: a receive outcome with one remote reference has been reported
\* by a Success line printing 1.
C18_Witness ==
    \E k \in DOMAIN lines :
        /\ lines[k].tag = "Success" /\ lines[k].arg = "1"
        /\ received[ItemOf(lines[k].name)] = 1

====
